---- MODULE Spec2Model ----
(***************************************************************************)
(* A model of tappy_lib/pad/pad.py: the padding engine (__loop_across),    *)
(* the normalisation of its parameters (__validate_tuple), the eight       *)
(* edge-vector generators and the public functions that bind them.         *)
(*                                                                         *)
(* Conventions.  Python sequences are TLA+ sequences, so a Python index k  *)
(* is the TLA+ index k + 1; slices keep Python's meaning (negative bounds  *)
(* count from the end, out-of-range bounds are clipped).  A Python value   *)
(* handed to a parameter is a record [kind, v, items]: an int, a sequence  *)
(* (tuple or list) of such values, or None.  An n-dimensional array is a   *)
(* record [shape, data] whose data maps each index tuple to an integer.    *)
(* The arrays are integer arrays (every docstring example is), so a float  *)
(* stored into one is truncated towards zero.                              *)
(***************************************************************************)
EXTENDS Integers, Sequences, FiniteSets, TLC

VARIABLES call, build, pc, iaxis, pw, kw, newmat, exc, divisors, trail

vars == <<call, build, pc, iaxis, pw, kw, newmat, exc, divisors, trail>>

----------------------------------------------------------------------------
(* Bounds of the model: the length of a 1-D input and the side of a 2-D    *)
(* one, the pad width of the scalar, pair and one-axis forms and of the    *)
(* two-axis lists, and the length of a statistic window.                   *)

MaxLen == 3
MaxPad == 2
MaxSide == MaxLen - 1
MaxPadND == MaxPad - 1
MaxStat == MaxPad

----------------------------------------------------------------------------
(* Python values.                                                          *)

PyInt(n) == [kind |-> "int", v |-> n, items |-> <<>>]
PySeq(s) == [kind |-> "seq", v |-> 0, items |-> s]
PyNone == [kind |-> "none", v |-> 0, items |-> <<>>]

IsSeq(x) == x.kind = "seq"
IsNum(x) == x.kind = "int"
PyLen(x) == Len(x.items)
PyPair(a, b) == PySeq(<<PyInt(a), PyInt(b)>>)
PyScalar(a) == PySeq(<<PyInt(a)>>)
Repeat(x, n) == [i \in 1..n |-> x]

(* Python 2 orders a number below every tuple, so `t < 0` is False for a   *)
(* tuple t and no comparison raises.                                       *)
PyNegative(x) == IsNum(x) /\ x.v < 0

(* bool(x) of a parameter: None, 0 and the empty sequence are false.       *)
PyTruthy(x) ==
    CASE x.kind = "none" -> FALSE
      [] x.kind = "int" -> x.v # 0
      [] OTHER -> PyLen(x) > 0

----------------------------------------------------------------------------
(* Arithmetic and slices.                                                  *)

Min2(a, b) == IF a <= b THEN a ELSE b
Max2(a, b) == IF a >= b THEN a ELSE b

(* The value an integer array keeps of the float num/den, den > 0.         *)
TruncDiv(num, den) == IF num >= 0 THEN num \div den ELSE -((-num) \div den)

(* A slice bound k of a sequence of length n, as Python resolves it.       *)
Clip(k, n) == IF k < 0 THEN Max2(k + n, 0) ELSE Min2(k, n)

(* vector[lo:hi] *)
Slice(vector, lo, hi) ==
    SubSeq(vector, Clip(lo, Len(vector)) + 1, Clip(hi, Len(vector)))

(* vector[lo:] *)
SliceFrom(vector, lo) ==
    SubSeq(vector, Clip(lo, Len(vector)) + 1, Len(vector))

(* f itself.  TLC evaluates a function expression entry by entry, each     *)
(* time an entry is read; comparing it evaluates it once and for all.      *)
Eager(f) == IF f = f THEN f ELSE f

(* vector[::-1] *)
Reverse(s) == [i \in 1..Len(s) |-> s[Len(s) + 1 - i]]

----------------------------------------------------------------------------
(* Exceptions: the class raised and what its constructor was given.        *)

NoExc == [type |-> "none", rk |-> 0, pw |-> PyNone]
Raise(t) == [type |-> t, rk |-> 0, pw |-> PyNone]
PadWidthWrongNumberOfValues(rk, pwv) ==
    [type |-> "PadWidthWrongNumberOfValues", rk |-> rk, pw |-> pwv]
NegativePadWidth == Raise("NegativePadWidth")

----------------------------------------------------------------------------
(* __validate_tuple                                                        *)

(* The loop `for i in pw` from entry k on: the first entry that fails one  *)
(* of the tests decides the exception.                                     *)
RECURSIVE CheckPairs(_, _, _)
CheckPairs(shapelen, pwv, k) ==
    IF k > PyLen(pwv) THEN NoExc
    ELSE LET i == pwv.items[k]
         IN  IF ~IsSeq(i) THEN Raise("TypeError")
             ELSE IF PyLen(i) # 2
                  THEN PadWidthWrongNumberOfValues(shapelen, pwv)
             ELSE IF PyNegative(i.items[1]) \/ PyNegative(i.items[2])
                  THEN NegativePadWidth
             ELSE CheckPairs(shapelen, pwv, k + 1)

(* The scalar form (v,) read as a before width only.                       *)
ScalarPair_before_only(first) == PySeq(<<first, PyInt(0)>>)

(* The scalar form (v,): the pair every axis gets.                         *)
ScalarPair(first) == PySeq(<<first, first>>)

(* [exc, pw]: the exception raised, or none and the per-axis pair list.    *)
validate_tuple(shapelen, pad_width) ==
    IF IsSeq(pad_width) /\ PyLen(pad_width) = 0
    THEN [exc |-> Raise("IndexError"), pw |-> PyNone]
    ELSE LET first == pad_width.items[1]
             perAxis == IsSeq(pad_width) /\ IsSeq(first)
                        /\ PyLen(pad_width) = shapelen
             scalar == IsSeq(pad_width) /\ IsNum(first)
                       /\ PyLen(pad_width) = 1
             pair == IsSeq(pad_width) /\ IsNum(first)
                     /\ PyLen(pad_width) = 2
             pwv == IF pair THEN PySeq(Repeat(pad_width, shapelen))
                    ELSE IF scalar
                         THEN PySeq(Repeat(ScalarPair(first), shapelen))
                    ELSE IF perAxis THEN pad_width
                    ELSE PyNone
         IN  IF pwv = PyNone
             THEN [exc |-> PadWidthWrongNumberOfValues(shapelen, pad_width),
                   pw |-> PyNone]
             ELSE LET e == CheckPairs(shapelen, pwv, 1)
                  IN  [exc |-> e,
                       pw |-> IF e.type = "none" THEN pwv ELSE PyNone]

(* pairs[iaxis] of a validated parameter, as <<before, after>>.            *)
PairAt(pairs, ax) == <<pairs.items[ax].items[1].v, pairs.items[ax].items[2].v>>

----------------------------------------------------------------------------
(* Arrays.                                                                 *)

RECURSIVE Indices(_)
Indices(shape) ==
    IF Len(shape) = 0 THEN {<<>>}
    ELSE {Append(t, k) : t \in Indices(SubSeq(shape, 1, Len(shape) - 1)),
                         k \in 1..shape[Len(shape)]}

Rank(a) == Len(a.shape)

(* The line of array a along axis ax through index t, as a vector.         *)
Line(a, ax, t) ==
    Eager([k \in 1..a.shape[ax] |-> a.data[[t EXCEPT ![ax] = k]]])

----------------------------------------------------------------------------
(* Assignment to a slice of a line.  The value assigned is either a fresh  *)
(* array (its values) or a view of the line itself (the positions of the   *)
(* line it shows): __reflect and __wrap hand views to __create_vector, so  *)
(* what the second assignment copies is what the line holds by then.       *)

Fresh(vals) == [view |-> FALSE, vals |-> vals, pos |-> <<>>]
View(pos) == [view |-> TRUE, vals |-> <<>>, pos |-> pos]
SrcLen(src) == IF src.view THEN Len(src.pos) ELSE Len(src.vals)

(* The positions vector[lo:hi] shows.                                      *)
SlicePos(vector, lo, hi) ==
    LET first == Clip(lo, Len(vector)) + 1
        last == Clip(hi, Len(vector))
    IN  [i \in 1..Max2(last - first + 1, 0) |-> first + i - 1]

(* An element-by-element copy in ascending order, reading the line as the  *)
(* copy has left it so far.                                                *)
RECURSIVE ForwardCopy(_, _, _, _, _)
ForwardCopy(vector, dest, n, pos, i) ==
    IF i > n THEN vector
    ELSE ForwardCopy([vector EXCEPT ![dest + i - 1] =
                          vector[pos[IF Len(pos) = 1 THEN 1 ELSE i]]],
                     dest, n, pos, i + 1)

(* vector[dest-1 : dest-1+n] = src.  numpy broadcasts a value of length 1  *)
(* and refuses any other length but n.  A view that overlaps the slice it  *)
(* is copied to is copied as the build's numpy does it: through a buffer,  *)
(* or element by element.                                                  *)
SetSlice(vector, dest, n, src, copy) ==
    IF SrcLen(src) # n /\ SrcLen(src) # 1
    THEN [exc |-> "ValueError", vector |-> vector]
    ELSE [exc |-> "none",
          vector |-> Eager(
              IF ~src.view
              THEN [k \in 1..Len(vector) |->
                       IF dest <= k /\ k < dest + n
                       THEN src.vals[IF Len(src.vals) = 1 THEN 1
                                     ELSE k - dest + 1]
                       ELSE vector[k]]
              ELSE IF copy = "buffered"
              THEN [k \in 1..Len(vector) |->
                       IF dest <= k /\ k < dest + n
                       THEN vector[src.pos[IF Len(src.pos) = 1 THEN 1
                                           ELSE k - dest + 1]]
                       ELSE vector[k]]
              ELSE ForwardCopy(vector, dest, n, src.pos, 1))]

(* __create_vector with the after side sliced by the before width.         *)
create_vector_before_width(vector, pad_tuple, before_val, after_val, copy) ==
    LET first == SetSlice(vector, 1, pad_tuple[1], before_val, copy)
    IN  IF first.exc # "none" THEN first
        ELSE IF pad_tuple[2] > 0
             THEN SetSlice(first.vector, Len(vector) - pad_tuple[1] + 1,
                           pad_tuple[1], after_val, copy)
             ELSE first

(* __create_vector.  A view given as after_val shows the line as the first *)
(* assignment left it.                                                     *)
create_vector(vector, pad_tuple, before_val, after_val, copy) ==
    LET first == SetSlice(vector, 1, pad_tuple[1], before_val, copy)
    IN  IF first.exc # "none" THEN first
        ELSE IF pad_tuple[2] > 0
             THEN SetSlice(first.vector, Len(vector) - pad_tuple[2] + 1,
                           pad_tuple[2], after_val, copy)
             ELSE first

----------------------------------------------------------------------------
(* Statistics of a window.  max and min of an empty sequence raise.  The   *)
(* mean and the median of an empty window are nan, and what an integer     *)
(* line keeps of nan is whatever the build's cast yields (nan).            *)

RECURSIVE SeqSum(_)
SeqSum(s) == IF Len(s) = 0 THEN 0 ELSE s[1] + SeqSum(Tail(s))

SeqMax(s) == CHOOSE m \in {s[i] : i \in 1..Len(s)} :
                 \A i \in 1..Len(s) : s[i] <= m
SeqMin(s) == CHOOSE m \in {s[i] : i \in 1..Len(s)} :
                 \A i \in 1..Len(s) : m <= s[i]

(* The k-th smallest entry of s (k from 1), counting repetitions.          *)
Sorted(s, k) ==
    CHOOSE m \in {s[i] : i \in 1..Len(s)} :
        /\ Cardinality({i \in 1..Len(s) : s[i] < m}) < k
        /\ Cardinality({i \in 1..Len(s) : s[i] <= m}) >= k

SeqMean(s) == TruncDiv(SeqSum(s), Len(s))

SeqMedian(s) ==
    LET n == Len(s)
    IN  IF n % 2 = 1 THEN Sorted(s, (n + 1) \div 2)
        ELSE TruncDiv(Sorted(s, n \div 2) + Sorted(s, n \div 2 + 1), 2)

(* __create_stat_vectors with the after window cut like the before one,    *)
(* from the head of the interior.                                          *)
create_stat_vectors_after_from_head(vector, pad_tuple, ax, kwv) ==
    LET whole == IF pad_tuple[2] = 0 THEN SliceFrom(vector, pad_tuple[1])
                 ELSE Slice(vector, pad_tuple[1], -pad_tuple[2])
    IN  IF PyTruthy(kwv.stat_len)
        THEN LET stat_len == PairAt(kwv.stat_len, ax)
             IN  [sbvec |-> IF pad_tuple[1] > 0
                            THEN Slice(vector, pad_tuple[1],
                                       pad_tuple[1] + stat_len[1])
                            ELSE <<0>>,
                  savec |-> IF pad_tuple[2] > 0
                            THEN Slice(vector, pad_tuple[1],
                                       pad_tuple[1] + stat_len[2])
                            ELSE <<0>>]
        ELSE [sbvec |-> whole, savec |-> whole]

(* __create_stat_vectors *)
create_stat_vectors(vector, pad_tuple, ax, kwv) ==
    LET whole == IF pad_tuple[2] = 0 THEN SliceFrom(vector, pad_tuple[1])
                 ELSE Slice(vector, pad_tuple[1], -pad_tuple[2])
    IN  IF PyTruthy(kwv.stat_len)
        THEN LET stat_len == PairAt(kwv.stat_len, ax)
             IN  [sbvec |-> IF pad_tuple[1] > 0
                            THEN Slice(vector, pad_tuple[1],
                                       pad_tuple[1] + stat_len[1])
                            ELSE <<0>>,
                  savec |-> IF pad_tuple[2] > 0
                            THEN Slice(vector, -pad_tuple[2] - stat_len[2],
                                       -pad_tuple[2])
                            ELSE <<0>>]
        ELSE [sbvec |-> whole, savec |-> whole]

(* What bvec[:] = f(sbvec) leaves in a buffer of n entries: [exc, vals].   *)
StatBuffer(fn, window, n, nan) ==
    IF Len(window) = 0
    THEN IF fn \in {"maximum", "minimum"}
         THEN [exc |-> "ValueError", vals |-> <<>>]
         ELSE [exc |-> "none", vals |-> Repeat(nan, n)]
    ELSE LET stat == CASE fn = "maximum" -> SeqMax(window)
                       [] fn = "minimum" -> SeqMin(window)
                       [] fn = "median" -> SeqMedian(window)
                       [] OTHER -> SeqMean(window)
         IN  [exc |-> "none", vals |-> Eager(Repeat(stat, n))]

(* __maximum, __minimum, __median, __mean: one body, the statistic apart.  *)
stat_generator(fn, vector, pad_tuple, ax, kwv, bld) ==
    LET sv == create_stat_vectors(vector, pad_tuple, ax, kwv)
        bvec == StatBuffer(fn, sv.sbvec, pad_tuple[1], bld.nan)
        avec == StatBuffer(fn, sv.savec, pad_tuple[2], bld.nan)
    IN  IF bvec.exc # "none" THEN [exc |-> bvec.exc, vector |-> vector]
        ELSE IF avec.exc # "none" THEN [exc |-> avec.exc, vector |-> vector]
        ELSE create_vector(vector, pad_tuple, Fresh(bvec.vals),
                           Fresh(avec.vals), bld.copy)

(* __constant *)
constant_generator(vector, pad_tuple, ax, kwv, bld) ==
    LET nconstant == PairAt(kwv.constant_values, ax)
    IN  create_vector(vector, pad_tuple,
                      Fresh(Repeat(nconstant[1], pad_tuple[1])),
                      Fresh(Repeat(nconstant[2], pad_tuple[2])), bld.copy)

(* (edge - end) / float(n), kept as the fraction it is.  With n = 0 the    *)
(* division is still executed: on a numpy scalar it yields inf or nan and  *)
(* a warning, not an exception.                                            *)
Delta(edge, end, n) == [num |-> edge - end, den |-> n]

(* ones(n) * end, cast to the line's integer type, entry i (from 0) then   *)
(* replaced by entry + i * delta, which the integer array truncates.  The  *)
(* fraction is kept exact: for the widths of the model the float product   *)
(* i * delta is an integer only where delta is one.                        *)
Ramp(end, delta, n) ==
    [k \in 1..n |-> TruncDiv(end * delta.den + (k - 1) * delta.num, delta.den)]

(* __linear_ramp: [exc, vector, div], div the divisors of its divisions.   *)
linear_ramp_generator(vector, pad_tuple, ax, kwv, bld) ==
    LET end_value == PairAt(kwv.end_value, ax)
        before_delta == Delta(vector[pad_tuple[1] + 1], end_value[1],
                              pad_tuple[1])
        after_delta == Delta(vector[Len(vector) - pad_tuple[2]], end_value[2],
                             pad_tuple[2])
        before_vector == Ramp(end_value[1], before_delta, pad_tuple[1])
        after_vector == Reverse(Ramp(end_value[2], after_delta, pad_tuple[2]))
        filled == create_vector(vector, pad_tuple, Fresh(before_vector),
                                Fresh(after_vector), bld.copy)
    IN  [exc |-> filled.exc, vector |-> filled.vector,
         div |-> {before_delta.den, after_delta.den}]

(* __reflect *)
reflect_generator(vector, pad_tuple, ax, kwv, bld) ==
    LET before_vector == Reverse(SlicePos(vector, pad_tuple[1] + 1,
                                          2 * pad_tuple[1] + 1))
        after_vector == Reverse(SlicePos(vector, -2 * pad_tuple[2] - 1,
                                         -pad_tuple[2] - 1))
    IN  create_vector(vector, pad_tuple, View(before_vector),
                      View(after_vector), bld.copy)

(* __wrap *)
wrap_generator(vector, pad_tuple, ax, kwv, bld) ==
    LET before_vector == SlicePos(vector, -(pad_tuple[2] + pad_tuple[1]),
                                  -pad_tuple[2])
        after_vector == SlicePos(vector, pad_tuple[1],
                                 pad_tuple[1] + pad_tuple[2])
    IN  create_vector(vector, pad_tuple, View(before_vector),
                      View(after_vector), bld.copy)

(* The generator a public function binds, applied to one line:            *)
(* [exc, vector, div].  Only __linear_ramp divides by a pad width.         *)
NoDivision(filled) ==
    [exc |-> filled.exc, vector |-> filled.vector, div |-> {}]

Generator(fn, vector, pad_tuple, ax, kwv, bld) ==
    CASE fn \in {"maximum", "minimum", "median", "mean"} ->
             NoDivision(stat_generator(fn, vector, pad_tuple, ax, kwv, bld))
      [] fn = "constant" ->
             NoDivision(constant_generator(vector, pad_tuple, ax, kwv, bld))
      [] fn = "linear_ramp" ->
             linear_ramp_generator(vector, pad_tuple, ax, kwv, bld)
      [] fn = "reflect" ->
             NoDivision(reflect_generator(vector, pad_tuple, ax, kwv, bld))
      [] OTHER -> NoDivision(wrap_generator(vector, pad_tuple, ax, kwv, bld))

----------------------------------------------------------------------------
(* The public functions and __loop_across.                                 *)

StatFns == {"maximum", "minimum", "median", "mean"}
Fns == StatFns \cup {"constant", "linear_ramp", "reflect", "wrap"}

NoKw == [stat_len |-> PyNone, constant_values |-> PyNone, end_value |-> PyNone]

(* The body of the public function c.fn up to its call of __loop_across:   *)
(* constant and linear_ramp normalise their own parameter first.           *)
(* [exc, kw]: kw as __loop_across receives it.                             *)
public_function(c) ==
    LET shapelen == Rank(c.matrix)
    IN  CASE c.fn \in StatFns ->
                 [exc |-> NoExc, kw |-> [NoKw EXCEPT !.stat_len = c.extra]]
          [] c.fn = "constant" ->
                 LET v == validate_tuple(shapelen, c.extra)
                 IN  [exc |-> v.exc, kw |-> [NoKw EXCEPT !.constant_values = v.pw]]
          [] c.fn = "linear_ramp" ->
                 LET v == validate_tuple(shapelen, c.extra)
                 IN  [exc |-> v.exc, kw |-> [NoKw EXCEPT !.end_value = v.pw]]
          [] OTHER -> [exc |-> NoExc, kw |-> NoKw]

(* new_shape with total_dim_increase counting the before width only.      *)
new_shape_before_only(shape, pairs) ==
    [i \in 1..Len(shape) |-> shape[i] + PairAt(pairs, i)[1]]

(* new_shape = shape + total_dim_increase *)
new_shape(shape, pairs) ==
    [i \in 1..Len(shape) |-> shape[i] + PairAt(pairs, i)[1] + PairAt(pairs, i)[2]]

(* Is index t of the enlarged array inside offset_slices?                  *)
InOffsetSlices(shape, pairs, t) ==
    \A i \in 1..Len(shape) :
        /\ PairAt(pairs, i)[1] < t[i]
        /\ t[i] <= PairAt(pairs, i)[1] + shape[i]

(* newmat = zeros(new_shape); newmat[offset_slices] = nmatrix *)
place(nmatrix, pairs) ==
    LET ns == new_shape(nmatrix.shape, pairs)
    IN  [shape |-> ns,
         data |-> [t \in Indices(ns) |->
                      IF InOffsetSlices(nmatrix.shape, pairs, t)
                      THEN nmatrix.data[[i \in 1..Len(ns) |->
                                            t[i] - PairAt(pairs, i)[1]]]
                      ELSE 0]]

(* __loop_across up to its loop: [exc, kw, pw, newmat].                    *)
loop_across_enter(c) ==
    LET pf == public_function(c)
        shapelen == Rank(c.matrix)
        given == PyTruthy(pf.kw.stat_len)
        sl == IF given THEN validate_tuple(shapelen, pf.kw.stat_len)
              ELSE [exc |-> NoExc, pw |-> PyNone]
        kwv == [pf.kw EXCEPT !.stat_len = sl.pw]
        pwv == validate_tuple(shapelen, c.pad_width)
        none == [shape |-> <<>>, data |-> <<>>]
    IN  IF pf.exc.type # "none"
        THEN [exc |-> pf.exc, kw |-> NoKw, pw |-> PyNone, newmat |-> none]
        ELSE IF sl.exc.type # "none"
        THEN [exc |-> sl.exc, kw |-> NoKw, pw |-> PyNone, newmat |-> none]
        ELSE IF pwv.exc.type # "none"
        THEN [exc |-> pwv.exc, kw |-> NoKw, pw |-> PyNone, newmat |-> none]
        ELSE [exc |-> NoExc, kw |-> kwv, pw |-> pwv.pw,
              newmat |-> place(c.matrix, pwv.pw)]

(* np.apply_along_axis(function, iaxis, newmat, pad_width[iaxis], ...):    *)
(* the generator on every line along axis ax, each line changed in place.  *)
(* [exc, newmat, div].                                                     *)
apply_along_axis(fn, ax, arr, pad_tuple, kwv, bld) ==
    LET lines == {t \in Indices(arr.shape) : t[ax] = 1}
        out == Eager([t \in lines |->
                   Generator(fn, Line(arr, ax, t), pad_tuple, ax, kwv, bld)])
        failed == {t \in lines : out[t].exc # "none"}
    IN  [exc |-> IF failed = {} THEN "none"
                 ELSE out[CHOOSE t \in failed : TRUE].exc,
         newmat |-> [shape |-> arr.shape,
                     data |-> [t \in Indices(arr.shape) |->
                                  out[[t EXCEPT ![ax] = 1]].vector[t[ax]]]],
         div |-> UNION {out[t].div : t \in lines}]

(* The loop `for iaxis in rank` from axis ax on: [exc, newmat].            *)
RECURSIVE fill_axes(_, _, _, _, _, _)
fill_axes(fn, arr, pairs, kwv, bld, ax) ==
    IF ax > Rank(arr) THEN [exc |-> NoExc, newmat |-> arr]
    ELSE LET r == apply_along_axis(fn, ax, arr, PairAt(pairs, ax), kwv, bld)
         IN  IF r.exc # "none"
             THEN [exc |-> Raise(r.exc), newmat |-> arr]
             ELSE fill_axes(fn, r.newmat, pairs, kwv, bld, ax + 1)

(* The whole call c on build bld: the exception it raises, or none and     *)
(* the array it returns.                                                   *)
loop_across(c, bld) ==
    LET e == loop_across_enter(c)
    IN  IF e.exc.type # "none" THEN [exc |-> e.exc, newmat |-> e.newmat]
        ELSE fill_axes(c.fn, e.newmat, e.pw, e.kw, bld, 1)

----------------------------------------------------------------------------
(* The calls the model makes.  A call is [fn, matrix, pad_width, extra]:   *)
(* extra is stat_len, constant_values or end_value, whichever fn takes.    *)

(* The row-major position (from 0) of index t in an array of this shape.   *)
RECURSIVE LinearIndex(_, _, _)
LinearIndex(shape, t, i) ==
    IF i = 0 THEN 0
    ELSE LinearIndex(shape, t, i - 1) * shape[i] + (t[i] - 1)

Size(shape) == Cardinality(Indices(shape))

(* "arange": 1, 2, 3, ... in row-major order, the arrays of the docstrings *)
(* and of the module's test block.  "scrambled": neither sorted nor free   *)
(* of repetitions nor of negative entries.                                 *)
MakeArray(shape, kind) ==
    [shape |-> shape,
     data |-> [t \in Indices(shape) |->
                  LET k == LinearIndex(shape, t, Len(shape))
                  IN  IF kind = "arange" THEN k + 1
                      ELSE ((2 * k) % Size(shape)) - 1]]

FromList(xs) == [shape |-> <<Len(xs)>>, data |-> [t \in Indices(<<Len(xs)>>) |-> xs[t[1]]]]

Arrays ==
    {MakeArray(<<n>>, kind) : n \in 1..MaxLen, kind \in {"arange", "scrambled"}}
    \cup {MakeArray(<<nm[1], nm[2]>>, "arange") :
              nm \in {x \in (1..MaxSide) \X (1..MaxSide) : x[1] <= x[2]}}

(* The widths of the scalar and pair forms and of the lists for one axis:  *)
(* one negative width and every width up to MaxPad.  The lists for two     *)
(* axes take each of their four widths from the least and the greatest     *)
(* width of WidthsND, and a negative width at each of the four places.     *)
Widths == -1..MaxPad
WidthsND == {0, MaxPadND}

Triple == PySeq(<<PyInt(1), PyInt(1), PyInt(1)>>)

PadWidths ==
    {PyScalar(p) : p \in Widths}
    \cup {PyPair(p, q) : p \in Widths, q \in Widths}
    \cup {PySeq(<<PyPair(p, q)>>) : p \in Widths, q \in Widths}
    \cup {PySeq(<<PyPair(p, q), PyPair(r, s)>>) :
              p \in WidthsND, q \in WidthsND, r \in WidthsND, s \in WidthsND}
    \cup {PySeq(<<PyPair(-1, 0), PyPair(0, 0)>>),
          PySeq(<<PyPair(0, -1), PyPair(0, 0)>>),
          PySeq(<<PyPair(0, 0), PyPair(-1, 0)>>),
          PySeq(<<PyPair(0, 0), PyPair(0, -1)>>)}
    \cup {PySeq(<<>>), PyInt(1), Triple,
          PySeq(<<PyScalar(1)>>), PySeq(<<Triple>>),
          PySeq(<<PyPair(1, 1), PyScalar(1)>>),
          PySeq(<<PyPair(-1, 1), PyScalar(1)>>),
          PySeq(<<PyPair(1, 1), PyPair(1, 1), PyPair(1, 1)>>)}

StatLens ==
    {PyNone, Triple, PyPair(1, MaxStat), PyPair(MaxStat, 1)}
    \cup {PyScalar(s) : s \in -1..MaxStat}

FillValues ==
    {PyScalar(0), PyScalar(-1), PyPair(4, 6), PyPair(5, -4), Triple}

Extras(fn) ==
    IF fn \in StatFns THEN StatLens
    ELSE IF fn \in {"constant", "linear_ramp"} THEN FillValues
    ELSE {PyNone}

(* What the build leaves open: how numpy copies a view onto a slice that   *)
(* overlaps it (only __wrap can), and what an integer array keeps of nan   *)
(* (only the mean or median of an empty window is nan).                    *)
CopyOrders == {"buffered", "forward"}

(* Stands for the least integer of the element type, which is what the     *)
(* cast of nan yields on some builds (0 on others); no entry of an array   *)
(* of the model is that small otherwise.                                   *)
IntMin == -(2^15)
NanCasts == {0, IntMin}
DefaultBuild == [copy |-> "buffered", nan |-> 0]

Builds(fn, extra) ==
    IF fn = "wrap" THEN {[DefaultBuild EXCEPT !.copy = o] : o \in CopyOrders}
    ELSE IF fn \in {"mean", "median"} /\ extra = PyScalar(0)
    THEN {[DefaultBuild EXCEPT !.nan = n] : n \in NanCasts}
    ELSE {DefaultBuild}

A5 == FromList(<<1, 2, 3, 4, 5>>)
A6 == FromList(<<1, 2, 3, 4, 5, 6>>)
A22 == MakeArray(<<2, 2>>, "arange")

DocCall(fn, m, w, x) == [fn |-> fn, matrix |-> m, pad_width |-> w, extra |-> x]

(* The calls of the docstrings' examples.                                  *)
DocCalls ==
    {DocCall("maximum", A5, PyScalar(2), PyNone),
     DocCall("maximum", A5, PyPair(1, 7), PyNone),
     DocCall("maximum", A5, PyPair(0, 7), PyNone),
     DocCall("minimum", A6, PyScalar(2), PyNone),
     DocCall("minimum", A6, PyPair(4, 2), PyNone),
     DocCall("minimum", A22, PySeq(<<PyPair(3, 2), PyPair(2, 3)>>), PyNone),
     DocCall("median", A5, PyScalar(2), PyNone),
     DocCall("median", A5, PyPair(4, 0), PyNone),
     DocCall("mean", A5, PyScalar(2), PyNone),
     DocCall("constant", A5, PyPair(2, 3), PyPair(4, 6)),
     DocCall("linear_ramp", A5, PyPair(2, 3), PyPair(5, -4)),
     DocCall("reflect", A5, PyPair(2, 3), PyNone),
     DocCall("wrap", A5, PyPair(2, 3), PyNone)}

Calls ==
    DocCalls \cup
    {[fn |-> fn, matrix |-> m, pad_width |-> w, extra |-> x] :
        <<fn, x>> \in {<<f, e>> \in Fns \X (StatLens \cup FillValues) :
                           e \in Extras(f)},
        m \in Arrays, w \in PadWidths}

----------------------------------------------------------------------------
(* The state machine: one call of a public function, from the call to its  *)
(* return or its exception, the loop of __loop_across one axis a step.     *)

NoArray == [shape |-> <<>>, data |-> <<>>]

Init ==
    /\ call = [fn |-> "none", matrix |-> NoArray, pad_width |-> PyNone,
               extra |-> PyNone]
    /\ build = DefaultBuild
    /\ pc = "idle"
    /\ iaxis = 0
    /\ pw = PyNone
    /\ kw = NoKw
    /\ newmat = NoArray
    /\ exc = NoExc
    /\ divisors = {}
    /\ trail = <<>>

(* The public function is called: its own normalisation, then              *)
(* __loop_across down to the copy of the matrix into newmat.               *)
Enter(c, b) ==
    /\ call' = c
    /\ build' = b
    /\ LET e == loop_across_enter(c)
       IN  /\ exc' = e.exc
           /\ pc' = IF e.exc.type = "none" THEN "fill" ELSE "raised"
           /\ pw' = e.pw
           /\ kw' = e.kw
           /\ newmat' = e.newmat
           /\ trail' = IF e.exc.type = "none" THEN <<e.newmat>> ELSE <<>>
    /\ UNCHANGED <<iaxis, divisors>>

Call ==
    /\ pc = "idle"
    /\ \E c \in Calls : \E b \in Builds(c.fn, c.extra) : Enter(c, b)

(* The loop taking the axes from the last down to the first.               *)
FillAxis_descending ==
    /\ pc = "fill"
    /\ iaxis < Rank(newmat)
    /\ LET r == apply_along_axis(call.fn, Rank(newmat) - iaxis, newmat,
                                 PairAt(pw, Rank(newmat) - iaxis), kw, build)
       IN  /\ divisors' = divisors \cup r.div
           /\ IF r.exc = "none"
              THEN /\ newmat' = r.newmat
                   /\ trail' = Append(trail, r.newmat)
                   /\ iaxis' = iaxis + 1
                   /\ UNCHANGED <<pc, exc>>
              ELSE /\ pc' = "raised"
                   /\ exc' = Raise(r.exc)
                   /\ UNCHANGED <<newmat, trail, iaxis>>
    /\ UNCHANGED <<call, build, pw, kw>>

(* One turn of `for iaxis in rank`.                                        *)
FillAxis ==
    /\ pc = "fill"
    /\ iaxis < Rank(newmat)
    /\ LET r == apply_along_axis(call.fn, iaxis + 1, newmat,
                                 PairAt(pw, iaxis + 1), kw, build)
       IN  /\ divisors' = divisors \cup r.div
           /\ IF r.exc = "none"
              THEN /\ newmat' = r.newmat
                   /\ trail' = Append(trail, r.newmat)
                   /\ iaxis' = iaxis + 1
                   /\ UNCHANGED <<pc, exc>>
              ELSE /\ pc' = "raised"
                   /\ exc' = Raise(r.exc)
                   /\ UNCHANGED <<newmat, trail, iaxis>>
    /\ UNCHANGED <<call, build, pw, kw>>

(* return newmat *)
Return ==
    /\ pc = "fill"
    /\ iaxis = Rank(newmat)
    /\ pc' = "returned"
    /\ UNCHANGED <<call, build, iaxis, pw, kw, newmat, exc, divisors, trail>>

Next ==
    \/ Call
    \/ FillAxis
    \/ Return

Spec == Init /\ [][Next]_vars

----------------------------------------------------------------------------
(* Vocabulary of the properties.  The forms of a specification and what    *)
(* they resolve to are stated here from the documentation of pad_width,    *)
(* apart from validate_tuple.                                              *)

IsIntPair(x) ==
    IsSeq(x) /\ PyLen(x) = 2 /\ IsNum(x.items[1]) /\ IsNum(x.items[2])
FormScalar(x) == IsSeq(x) /\ PyLen(x) = 1 /\ IsNum(x.items[1])
FormPair(x) == IsIntPair(x)
FormPerAxis(x, r) ==
    IsSeq(x) /\ PyLen(x) = r /\ \A i \in 1..r : IsIntPair(x.items[i])
Accepted(x, r) == FormScalar(x) \/ FormPair(x) \/ FormPerAxis(x, r)

(* The per-axis pairs <<before, after>> an accepted form stands for.       *)
Resolved(x, r) ==
    [i \in 1..r |->
        IF FormScalar(x) THEN <<x.items[1].v, x.items[1].v>>
        ELSE IF FormPair(x) THEN <<x.items[1].v, x.items[2].v>>
        ELSE <<x.items[i].items[1].v, x.items[i].items[2].v>>]

SomeNegative(pairs) == \E i \in 1..Len(pairs) : pairs[i][1] < 0 \/ pairs[i][2] < 0

(* The explicit per-axis form of pairs.                                    *)
Explicit(pairs) == PySeq([i \in 1..Len(pairs) |-> PyPair(pairs[i][1], pairs[i][2])])

Called == pc # "idle"
Over == pc \in {"returned", "raised"}
Allocated == pc \in {"fill", "returned"}
Original == call.matrix
R0 == Rank(call.matrix)
Before(i) == PairAt(pw, i)[1]
After(i) == PairAt(pw, i)[2]

(* A returned 1-D array as a sequence, and the 1-D input as one.           *)
Result1 == [i \in 1..newmat.shape[1] |-> newmat.data[<<i>>]]
Input1 == [i \in 1..Original.shape[1] |-> Original.data[<<i>>]]

(* C1: from its allocation to its return, the enlarged array has the rank  *)
(* of the input and, on every axis i, the input's length plus the before   *)
(* and after widths that normalisation resolved for axis i; its entries    *)
(* are exactly the index tuples of that shape.                             *)
C1_ShapeLaw ==
    Allocated =>
        /\ Len(newmat.shape) = R0
        /\ \A i \in 1..R0 :
               newmat.shape[i] = Original.shape[i] + Before(i) + After(i)
        /\ DOMAIN newmat.data =
               Indices([i \in 1..R0 |->
                           Original.shape[i] + Before(i) + After(i)])

C1_Witness ==
    /\ pc = "returned"
    /\ R0 = 2
    /\ FormPerAxis(call.pad_width, 2)
    /\ Before(1) = 0 /\ After(1) = 1 /\ Before(2) = 1 /\ After(2) = 0

(* Does array b hold array a at the offsets `Before`?                      *)
HoldsOriginal(b) ==
    \A t \in Indices(Original.shape) :
        b.data[[i \in 1..R0 |-> t[i] + Before(i)]] = Original.data[t]

(* Is position j of a line along axis k an interior position?              *)
InteriorPos(k, j) == Before(k) < j /\ j <= Before(k) + Original.shape[k]

(* C2: the interior of the enlarged array equals the input right after     *)
(* the copy and after the fill of every axis, so also when it is           *)
(* returned; and the fill of axis k changes no line along axis k at an     *)
(* interior position: it writes line[:before] and line[-after:] only.      *)
C2_InteriorKept ==
    Allocated =>
        /\ \A k \in 1..Len(trail) : HoldsOriginal(trail[k])
        /\ HoldsOriginal(newmat)
        /\ \A k \in 1..(Len(trail) - 1) :
               \A t \in Indices(newmat.shape) :
                   InteriorPos(k, t[k]) =>
                       trail[k + 1].data[t] = trail[k].data[t]

C2_Witness ==
    /\ pc = "returned"
    /\ R0 = 2
    /\ Before(1) = 0 /\ After(1) > 0 /\ Before(2) > 0 /\ After(2) = 0
    /\ trail[1] # trail[2] /\ trail[2] # trail[3]

(* The widths of a 1-D call as its pad_width states them.                  *)
B1 == Resolved(call.pad_width, 1)[1][1]
A1 == Resolved(call.pad_width, 1)[1][2]
N1 == Original.shape[1]

(* C3: a call whose pad_width resolves to pairs with a negative component  *)
(* raises NegativePadWidth and returns nothing, whatever its other         *)
(* parameters; a call whose widths are all zero or more never raises it.   *)
C3_NegativeAlwaysRaises ==
    (Called /\ Accepted(call.pad_width, R0)) =>
        IF SomeNegative(Resolved(call.pad_width, R0))
        THEN pc = "raised" /\ exc.type = "NegativePadWidth"
        ELSE exc.type # "NegativePadWidth"

(* C4: normalising a specification that has none of the three accepted     *)
(* forms raises PadWidthWrongNumberOfValues, which carries the rank and    *)
(* the specification, and nothing else.                                    *)
C4_MalformedAlwaysReported ==
    (Called /\ ~Accepted(call.pad_width, R0)) =>
        validate_tuple(R0, call.pad_width).exc =
            PadWidthWrongNumberOfValues(R0, call.pad_width)

(* The border a ramp of n entries from end value e to edge value x gives,  *)
(* nearest the end value first, as an integer array keeps it.              *)
RampExpected(e, x, n) == [i \in 1..n |-> TruncDiv(e * n + (i - 1) * (x - e), n)]

(* C5: linear_ramp on a 1-D array with widths (b, a), both positive, and   *)
(* end values (e0, e1) of any sign returns the ramp from e0 up to x[0],    *)
(* the array, and the ramp from x[n-1] down to e1; the docstring's call    *)
(* returns [5, 3, 1, 2, 3, 4, 5, 2, -1, -4].                               *)
C5_LinearRampResult ==
    (/\ Over
     /\ call.fn = "linear_ramp"
     /\ R0 = 1
     /\ Accepted(call.pad_width, 1)
     /\ Accepted(call.extra, 1)) =>
        ((B1 > 0 /\ A1 > 0) =>
            LET e == Resolved(call.extra, 1)[1]
            IN  /\ pc = "returned"
                /\ Result1 = RampExpected(e[1], Input1[1], B1) \o Input1
                             \o Reverse(RampExpected(e[2], Input1[N1], A1))
                /\ (call = DocCall("linear_ramp", A5, PyPair(2, 3), PyPair(5, -4))
                        => Result1 = <<5, 3, 1, 2, 3, 4, 5, 2, -1, -4>>))

(* C6: wrap on a 1-D array of length n with widths 0 <= b, a <= n,         *)
(* one of them possibly 0, succeeds and returns the last b entries, the    *)
(* array, then the first a entries.                                        *)
C6_WrapCircular ==
    (/\ Over
     /\ call.fn = "wrap"
     /\ R0 = 1
     /\ Accepted(call.pad_width, 1)) =>
        ((0 <= B1 /\ B1 <= N1 /\ 0 <= A1 /\ A1 <= N1) =>
            /\ pc = "returned"
            /\ Result1 = SubSeq(Input1, N1 - B1 + 1, N1) \o Input1
                         \o SubSeq(Input1, 1, A1))

(* Is m the statistic fn (maximum or minimum) of the entries of s?         *)
IsExtreme(fn, m, s) ==
    /\ \E i \in 1..Len(s) : s[i] = m
    /\ \A i \in 1..Len(s) : IF fn = "maximum" THEN s[i] <= m ELSE m <= s[i]

(* C7: minimum and maximum on a 1-D array x with widths (b, a): without    *)
(* stat_len every border entry is the statistic of all of x; with stat_len *)
(* resolved to (s0, s1), both from 1 to n, every before entry is the       *)
(* statistic of the first s0 entries of x and every after entry that of    *)
(* the last s1.  A side of width 0 has no entries.                         *)
C7_StatisticBorders ==
    (/\ pc = "returned"
     /\ call.fn \in {"maximum", "minimum"}
     /\ R0 = 1) =>
        LET absent == call.extra = PyNone
            s == IF absent THEN <<N1, N1>> ELSE Resolved(call.extra, 1)[1]
        IN  (s[1] >= 1 /\ s[1] <= N1 /\ s[2] >= 1 /\ s[2] <= N1) =>
                /\ Len(Result1) = B1 + N1 + A1
                /\ \A i \in 1..B1 :
                       IsExtreme(call.fn, Result1[i], SubSeq(Input1, 1, s[1]))
                /\ \A i \in 1..A1 :
                       IsExtreme(call.fn, Result1[B1 + N1 + i],
                                 SubSeq(Input1, N1 - s[2] + 1, N1))

C7_Witness ==
    /\ pc = "returned"
    /\ call.fn = "minimum"
    /\ R0 = 1
    /\ N1 = 3
    /\ call.matrix = MakeArray(<<3>>, "scrambled")
    /\ call.extra = PyPair(1, 2)
    /\ B1 = 0 /\ A1 = 2

(* C8: the scalar form (p,) and the pair form (p, q), p and q zero or      *)
(* more, give what the explicit per-axis list of r copies of (p, p), of    *)
(* (p, q), gives: the same exception, or the same array.                   *)
C8_BroadcastEquivalence ==
    (/\ Over
     /\ FormScalar(call.pad_width) \/ FormPair(call.pad_width)
     /\ ~SomeNegative(Resolved(call.pad_width, R0))) =>
        LET twin == loop_across(
                        [call EXCEPT !.pad_width =
                             Explicit(Resolved(call.pad_width, R0))], build)
        IN  /\ twin.exc.type = exc.type
            /\ pc = "returned" => twin.newmat = newmat

C8_Witness ==
    /\ pc = "returned"
    /\ R0 = 2
    /\ call.pad_width = PyScalar(MaxPad)
    /\ call.fn = "median"

(* C9: __linear_ramp never divides by the width of a side that is 0.       *)
C9_NoDivisionByZeroWidth == 0 \notin divisors

(* The fill of axis k, line by line, from the array as axis k found it.    *)
FilledFrom(k, before, after) ==
    \A t \in {u \in Indices(before.shape) : u[k] = 1} :
        LET g == Generator(call.fn, Line(before, k, t), PairAt(pw, k), k,
                           kw, build)
        IN  \A j \in 1..before.shape[k] :
                after.data[[t EXCEPT ![k] = j]] = g.vector[j]

(* C10: the axes are filled in ascending order, each once: the k-th fill   *)
(* is that of axis k, on every line along axis k of the array as the       *)
(* fills of the axes below k left it, the lines in their borders           *)
(* included; nothing is returned before the last axis is filled; and       *)
(* minimum([[1, 2], [3, 4]], ((3, 2), (2, 3))) returns 7 rows, row 4       *)
(* [3, 3, 3, 4, 3, 3, 3] and every other row [1, 1, 1, 2, 1, 1, 1].        *)
C10_AxesInOrder ==
    Allocated =>
        /\ Len(trail) = iaxis + 1
        /\ trail[Len(trail)] = newmat
        /\ pc = "returned" => iaxis = R0
        /\ \A k \in 1..iaxis : FilledFrom(k, trail[k], trail[k + 1])
        /\ (/\ pc = "returned"
            /\ call = DocCall("minimum", A22,
                              PySeq(<<PyPair(3, 2), PyPair(2, 3)>>), PyNone)) =>
               /\ newmat.shape = <<7, 7>>
               /\ \A i \in 1..7 :
                      [j \in 1..7 |-> newmat.data[<<i, j>>]] =
                          IF i = 5 THEN <<3, 3, 3, 4, 3, 3, 3>>
                          ELSE <<1, 1, 1, 2, 1, 1, 1>>

C10_Witness ==
    /\ pc = "returned"
    /\ call = DocCall("minimum", A22, PySeq(<<PyPair(3, 2), PyPair(2, 3)>>),
                      PyNone)
    /\ newmat.data[<<1, 1>>] = 1
    /\ trail[2].data[<<1, 1>>] = 0

====
